---- MODULE Spec2Model ----
(***************************************************************************)
(* Region extraction and recomposition engine of score-splitter             *)
(* (backend/main.go): area normalisation, page selection, the TrimScore and *)
(* TrimScoreWithProgress request pipelines.                                 *)
(*                                                                          *)
(* Fractions of a page (float64 in the source) are fixed-point integers in  *)
(* units of 1/One, so that minAreaSize (0.01) is 2 units and values below   *)
(* it are representable.  NaN is a distinguished value that every           *)
(* arithmetic operation propagates and every comparison rejects, as IEEE    *)
(* 754 and Go's math.Min / math.Max do.                                     *)
(***************************************************************************)
EXTENDS Integers, Sequences, FiniteSets, TLC

VARIABLES
    arg,    \* unit specifications: the argument a function is applied to
    ret,    \* unit specifications: the results returned so far, in call order
    pc,     \* request pipeline: position of the handler
    req,    \* request pipeline: the request message
    loc,    \* request pipeline: the handler's local variables
    sent,   \* request pipeline: notifications sent on the stream so far
    resp    \* request pipeline: the handler's response or error

vars == <<arg, ret, pc, req, loc, sent, resp>>

pipeVars == <<pc, req, loc, sent, resp>>

unitVars == <<arg, ret>>

(***************************************************************************)
(* Bounds of the model.                                                     *)
(***************************************************************************)
\* entries of the list given to normalizeAreas
MaxAreas == 3

\* entries of the list given to resolvePagesToProcess
MaxInclude == 3

\* pages of a source document
MaxPages == 2

\* default areas, and areas of a page setting, of a request
MaxStrips == 2

\* entries of the include list of a request
MaxSelect == 2

\* pages of the longest source of the progress specification
MaxProgressPages == 26

\* characters of a title
MaxTitle == 5

(***************************************************************************)
(* float64 values.                                                          *)
(***************************************************************************)
minAreaSize == 2

One == 100 * minAreaSize

NaN == -9999

IsNaN(x) == x = NaN

FLt(x, y) == ~IsNaN(x) /\ ~IsNaN(y) /\ x < y

FGt(x, y) == ~IsNaN(x) /\ ~IsNaN(y) /\ x > y

FLe(x, y) == ~IsNaN(x) /\ ~IsNaN(y) /\ x <= y

FGe(x, y) == ~IsNaN(x) /\ ~IsNaN(y) /\ x >= y

FEq(x, y) == ~IsNaN(x) /\ ~IsNaN(y) /\ x = y

FAdd(x, y) == IF IsNaN(x) \/ IsNaN(y) THEN NaN ELSE x + y

FSub(x, y) == IF IsNaN(x) \/ IsNaN(y) THEN NaN ELSE x - y

\* math.Max and math.Min: NaN if either operand is NaN
FMax(x, y) == IF IsNaN(x) \/ IsNaN(y) THEN NaN ELSE IF x > y THEN x ELSE y

FMin(x, y) == IF IsNaN(x) \/ IsNaN(y) THEN NaN ELSE IF x < y THEN x ELSE y

clamp(value, min, max) == FMin(FMax(value, min), max)

(***************************************************************************)
(* Errors: the message (with the number it formats, 0 when it has none).    *)
(***************************************************************************)
NoError == [msg |-> "", n |-> 0]

Error(msg, n) == [msg |-> msg, n |-> n]

\* "トリミングエリア%vがページ範囲外です"
ErrAreaOutOfBounds(idx) == Error("area out of page bounds", idx)

\* "有効なトリミングエリアがありません"
ErrNoValidAreas == Error("no valid crop areas", 0)

\* "PDFにページがありません"
ErrNoPages == Error("pdf has no pages", 0)

\* "含めるページ番号%vが範囲外です"
ErrIncludeOutOfRange(pageNum) == Error("include page out of range", pageNum)

\* "有効なページがありません"
ErrNoValidPages == Error("no valid pages", 0)

(***************************************************************************)
(* normalizeAreas                                                           *)
(***************************************************************************)
\* a nil *score.CropArea
Nil == [nil |-> TRUE]

CropArea(top, left, width, height) ==
    [top |-> top, left |-> left, width |-> width, height |-> height]

clampedAreaNotShrunk(area) ==
    [top |-> clamp(area.top, 0, One), left |-> clamp(area.left, 0, One),
     width |-> clamp(area.width, minAreaSize, One),
     height |-> clamp(area.height, minAreaSize, One)]

\* the loop body of normalizeAreas up to the size check: clamp, then shrink to fit
clampedArea(area) ==
    LET top == clamp(area.top, 0, One)
        left == clamp(area.left, 0, One)
        width == clamp(area.width, minAreaSize, One)
        height == clamp(area.height, minAreaSize, One)
        width2 == IF FGt(FAdd(left, width), One) THEN FSub(One, left) ELSE width
        height2 == IF FGt(FAdd(top, height), One) THEN FSub(One, top) ELSE height
    IN  [top |-> top, left |-> left, width |-> width2, height |-> height2]

tooSmall(n) == FLt(n.width, minAreaSize) \/ FLt(n.height, minAreaSize)

areaLessOrEqual(a, b) ==
    IF FEq(a.top, b.top) THEN FLe(a.left, b.left) ELSE FLt(a.top, b.top)

\* the comparison function given to sort.SliceStable
areaLess(a, b) ==
    IF FEq(a.top, b.top) THEN FLt(a.left, b.left) ELSE FLt(a.top, b.top)

Swap(s, i, j) == [s EXCEPT ![i] = s[j], ![j] = s[i]]

\* inner loop of the insertion sort: for j := i; j > a && less(j, j-1); j--
RECURSIVE SiftDown(_, _)
SiftDown(s, j) ==
    IF j > 1 /\ areaLess(s[j], s[j - 1])
    THEN SiftDown(Swap(s, j, j - 1), j - 1)
    ELSE s

RECURSIVE InsertFrom(_, _)
InsertFrom(s, i) ==
    IF i > Len(s) THEN s ELSE InsertFrom(SiftDown(s, i), i + 1)

\* sort.SliceStable on fewer than 20 elements is one insertion sort
SliceStable(s) == InsertFrom(s, 2)

RECURSIVE normalizeLoop(_, _, _)
normalizeLoop(areas, idx, normalized) ==
    IF idx > Len(areas)
    THEN IF Len(normalized) = 0
         THEN [err |-> ErrNoValidAreas, areas |-> <<>>]
         ELSE [err |-> NoError, areas |-> SliceStable(normalized)]
    ELSE IF areas[idx] = Nil
         THEN normalizeLoop(areas, idx + 1, normalized)
         ELSE LET n == clampedArea(areas[idx])
              IN  IF tooSmall(n)
                  THEN [err |-> ErrAreaOutOfBounds(idx), areas |-> <<>>]
                  ELSE normalizeLoop(areas, idx + 1, Append(normalized, n))

normalizeAreas(areas) ==
    IF Len(areas) = 0
    THEN [err |-> NoError, areas |-> <<>>]
    ELSE normalizeLoop(areas, 1, <<>>)

(***************************************************************************)
(* resolvePagesToProcess                                                    *)
(***************************************************************************)
ContainsNever(s, x) == FALSE

Contains(s, x) == \E i \in 1..Len(s) : s[i] = x

RECURSIVE SiftInt(_, _)
SiftInt(s, j) ==
    IF j > 1 /\ s[j] < s[j - 1] THEN SiftInt(Swap(s, j, j - 1), j - 1) ELSE s

RECURSIVE SortFrom(_, _)
SortFrom(s, i) == IF i > Len(s) THEN s ELSE SortFrom(SiftInt(s, i), i + 1)

SortIntsSkipped(s) == s

\* sort.Ints
SortInts(s) == SortFrom(s, 2)

RECURSIVE includeLoop(_, _, _, _)
includeLoop(totalPages, includePages, k, pages) ==
    IF k > Len(includePages)
    THEN IF Len(pages) = 0
         THEN [err |-> ErrNoValidPages, pages |-> <<>>]
         ELSE [err |-> NoError, pages |-> SortInts(pages)]
    ELSE LET pageIndex == includePages[k]
         IN  IF pageIndex < 1 \/ pageIndex > totalPages
             THEN [err |-> ErrIncludeOutOfRange(pageIndex), pages |-> <<>>]
             ELSE IF Contains(pages, pageIndex)
                  THEN includeLoop(totalPages, includePages, k + 1, pages)
                  ELSE includeLoop(totalPages, includePages, k + 1,
                                   Append(pages, pageIndex))

resolvePagesNone(totalPages, includePages) == [err |-> NoError, pages |-> <<>>]

resolvePagesToProcess(totalPages, includePages) ==
    IF totalPages <= 0
    THEN [err |-> ErrNoPages, pages |-> <<>>]
    ELSE IF Len(includePages) = 0
         THEN [err |-> NoError, pages |-> [i \in 1..totalPages |-> i]]
         ELSE includeLoop(totalPages, includePages, 1, <<>>)

(***************************************************************************)
(* Bounded sequences.                                                       *)
(***************************************************************************)
SeqsUpTo(S, n) == UNION {[1..k -> S] : k \in 0..n}

(***************************************************************************)
(* Unit specification of normalizeAreas: the argument is any list of at     *)
(* most MaxAreas entries (nil included); the function is applied to it and  *)
(* then once more to the AreaSet it returned.                               *)
(***************************************************************************)
RawAreaInputs ==
    {CropArea(t, l, One \div 2, One \div 2) :
        t \in {-20, 0, 100, 150, 199, 260}, l \in {0, 100}}
    \cup {CropArea(0, 0, w, h) : w \in {-20, 1, 300}, h \in {1, 100}}
    \cup {CropArea(0, l, 100, 100) : l \in {199, 200}}
    \cup {CropArea(NaN, 0, 100, 100), CropArea(0, 0, NaN, 100)}

idle == [pc |-> "idle", req |-> <<>>, loc |-> <<>>, sent |-> <<>>, resp |-> <<>>]

PipelineIdle ==
    /\ pc = idle.pc
    /\ req = idle.req
    /\ loc = idle.loc
    /\ sent = idle.sent
    /\ resp = idle.resp

InitNormalize ==
    /\ arg \in SeqsUpTo(RawAreaInputs \cup {Nil}, MaxAreas)
    /\ ret = <<>>
    /\ PipelineIdle

CallNormalizeAreas ==
    /\ Len(ret) = 0
    /\ ret' = <<normalizeAreas(arg)>>
    /\ UNCHANGED <<arg, pipeVars>>

\* a normalizedArea handed back as a *score.CropArea: the four fields are copied
asCropAreas(areas) ==
    [i \in 1..Len(areas) |->
        CropArea(areas[i].top, areas[i].left, areas[i].width, areas[i].height)]

RenormalizeAreas ==
    /\ Len(ret) = 1
    /\ ret[1].err = NoError
    /\ ret' = Append(ret, normalizeAreas(asCropAreas(ret[1].areas)))
    /\ UNCHANGED <<arg, pipeVars>>

NextNormalize == CallNormalizeAreas \/ RenormalizeAreas

SpecNormalize == InitNormalize /\ [][NextNormalize]_vars

(***************************************************************************)
(* Unit specification of resolvePagesToProcess.                             *)
(***************************************************************************)
InitPages ==
    /\ arg \in [totalPages : 0..MaxPages,
                includePages : SeqsUpTo(0..(MaxPages + 1), MaxInclude)]
    /\ ret = <<>>
    /\ PipelineIdle

CallResolvePages ==
    /\ Len(ret) = 0
    /\ ret' = <<resolvePagesToProcess(arg.totalPages, arg.includePages)>>
    /\ UNCHANGED <<arg, pipeVars>>

NextPages == CallResolvePages

SpecPages == InitPages /\ [][NextPages]_vars

(***************************************************************************)
(* The request pipeline: TrimScore and TrimScoreWithProgress.               *)
(***************************************************************************)
\* "PDFファイルが空です"
ErrEmptyPdf == Error("pdf file is empty", 0)

\* "ページ番号%vが無効です"
ErrInvalidPageNumber(n) == Error("invalid page number", n)

\* "トリミングエリアがありません"
ErrNoAreas == Error("no crop areas", 0)

\* pdfcpu.ErrWrongPassword
ErrWrongPassword == Error("pdfcpu: please provide the correct password", 0)

\* "PDFのパスワードが正しくありません"
ErrBadPassword == Error("pdf password is not correct", 0)

\* "ページ%vの設定がPDFの範囲外です"
ErrOverrideOutOfRange(page) == Error("page setting outside pdf", page)

\* "ページ%vのトリミングエリアがありません"
ErrNoAreasForPage(page) == Error("no crop areas for page", page)

\* "ページ%vのサイズ情報を取得できません"
ErrNoGeometry(page) == Error("page size unavailable", page)

\* "トリミング範囲がページ外です"
ErrRectOutside == Error("crop region outside page bounds", 0)

\* "トリミング範囲の幅または高さが0です"
ErrZeroSize == Error("crop region has zero width or height", 0)

\* "トリミング後のページを生成できませんでした"
ErrNoSegments == Error("no trimmed page produced", 0)

\* errors of the pdf library (page dictionary, extraction, encoding, writing)
ErrPdfLibrary(page) == Error("pdfcpu: structural failure", page)

\* errors of pdfapi.MergeRaw
ErrMerge == Error("pdfcpu: merge failed", 0)

\* errors of rotatePDFToLandscape
ErrNUp == Error("failed to create NUp layout", 0)

\* the error stream.Send returns when the client is gone
ErrSend == Error("stream send failed", 0)

CodeInvalidArgument == "invalid_argument"

CodeInternal == "internal"

\* an error returned as it is, not wrapped by connect.NewError
CodeUnknown == "unknown"

(***************************************************************************)
(* The handler's loop over the page settings.                               *)
(***************************************************************************)
MapPutIfAbsent(m, k, v) ==
    [x \in (DOMAIN m) \cup {k} |-> IF x \in DOMAIN m THEN m[x] ELSE v]

\* pageOverrides[pageNumber] = normalizedOverride
MapPut(m, k, v) == [x \in (DOMAIN m) \cup {k} |-> IF x = k THEN v ELSE m[x]]

RECURSIVE pageSettingsLoop(_, _, _)
pageSettingsLoop(settings, k, pageOverrides) ==
    IF k > Len(settings)
    THEN [err |-> NoError, pageOverrides |-> pageOverrides]
    ELSE IF settings[k] = Nil
         THEN pageSettingsLoop(settings, k + 1, pageOverrides)
         ELSE IF settings[k].pageNumber < 1
              THEN [err |-> ErrInvalidPageNumber(settings[k].pageNumber),
                    pageOverrides |-> <<>>]
              ELSE IF Len(settings[k].areas) = 0
                   THEN pageSettingsLoop(settings, k + 1, pageOverrides)
                   ELSE LET normalizedOverride == normalizeAreas(settings[k].areas)
                        IN  IF normalizedOverride.err # NoError
                            THEN [err |-> normalizedOverride.err,
                                  pageOverrides |-> <<>>]
                            ELSE IF Len(normalizedOverride.areas) = 0
                                 THEN pageSettingsLoop(settings, k + 1, pageOverrides)
                                 ELSE pageSettingsLoop(settings, k + 1,
                                          MapPut(pageOverrides,
                                                 settings[k].pageNumber,
                                                 normalizedOverride.areas))

(***************************************************************************)
(* Page geometry and segment extraction.                                    *)
(***************************************************************************)
\* a fraction of a length: fraction * length, the fraction being in units of 1/One
FMul(fraction, length) ==
    IF IsNaN(fraction) \/ IsNaN(length) THEN NaN ELSE (fraction * length) \div One

Rectangle(llx, lly, urx, ury) == [llx |-> llx, lly |-> lly, urx |-> urx, ury |-> ury]

RectWidth(r) == FSub(r.urx, r.llx)

RectHeight(r) == FSub(r.ury, r.lly)

rectFromAreaFromBottom(pageBox, area) ==
    LET width == RectWidth(pageBox)
        height == RectHeight(pageBox)
        llx == FAdd(pageBox.llx, FMul(area.left, width))
        lly == FAdd(pageBox.lly, FMul(area.top, height))
        urx == FAdd(llx, FMul(area.width, width))
        ury == FAdd(lly, FMul(area.height, height))
    IN  IF FLe(urx, llx) \/ FLe(ury, lly)
        THEN [err |-> ErrRectOutside, rect |-> Nil]
        ELSE [err |-> NoError, rect |-> Rectangle(llx, lly, urx, ury)]

rectFromArea(pageBox, area) ==
    LET width == RectWidth(pageBox)
        height == RectHeight(pageBox)
        llx0 == FAdd(pageBox.llx, FMul(area.left, width))
        lly0 == FSub(pageBox.ury, FMul(FAdd(area.top, area.height), height))
        urx0 == FAdd(llx0, FMul(area.width, width))
        ury0 == FAdd(lly0, FMul(area.height, height))
        llx == IF FLt(llx0, pageBox.llx) THEN pageBox.llx ELSE llx0
        lly == IF FLt(lly0, pageBox.lly) THEN pageBox.lly ELSE lly0
        urx == IF FGt(urx0, pageBox.urx) THEN pageBox.urx ELSE urx0
        ury == IF FGt(ury0, pageBox.ury) THEN pageBox.ury ELSE ury0
    IN  IF FLe(urx, llx) \/ FLe(ury, lly)
        THEN [err |-> ErrRectOutside, rect |-> Nil]
        ELSE [err |-> NoError, rect |-> Rectangle(llx, lly, urx, ury)]

segmentBoxNotMoved(rect) == rect

\* types.RectForWidthAndHeight(0, 0, width, height): the box of the segment
segmentBox(rect) == Rectangle(0, 0, RectWidth(rect), RectHeight(rect))

Operator(op, a, b) == [op |-> op, a |-> a, b |-> b]

segmentContentTranslateFirst(pdf, pageIndex, rect) ==
    <<Operator("q", 0, 0),
      Operator("cm", FSub(0, rect.llx), FSub(0, rect.lly))>>
    \o (IF pdf.rotate # 0 THEN <<Operator("rotate", pdf.rotate, 0)>> ELSE <<>>)
    \o <<Operator("page content", pageIndex, 0), Operator("Q", 0, 0)>>

\* the content stream of the segment: q, the compensation of the inherited
\* rotation if there is one, the translation "1 0 0 1 dx dy cm", the content
\* of the original page, Q
segmentContent(pdf, pageIndex, rect) ==
    <<Operator("q", 0, 0)>>
    \o (IF pdf.rotate # 0 THEN <<Operator("rotate", pdf.rotate, 0)>> ELSE <<>>)
    \o <<Operator("cm", FSub(0, rect.llx), FSub(0, rect.lly)),
         Operator("page content", pageIndex, 0),
         Operator("Q", 0, 0)>>

\* the bytes of one segment: the page it was cut from, the entries of its page
\* dictionary (MediaBox, CropBox, Rotate deleted) and its content stream
extractTrimmedSegment(pdf, pageIndex, rect, libOk) ==
    LET width == RectWidth(rect)
        height == RectHeight(rect)
        newBox == segmentBox(rect)
    IN  IF ~libOk
        THEN [err |-> ErrPdfLibrary(pageIndex), segment |-> Nil]
        ELSE IF FLe(width, 0) \/ FLe(height, 0)
             THEN [err |-> ErrZeroSize, segment |-> Nil]
             ELSE [err |-> NoError,
                   segment |-> [kind |-> "segment", page |-> pageIndex,
                                mediaBox |-> newBox, cropBox |-> newBox,
                                rotate |-> Nil,
                                contents |-> segmentContent(pdf, pageIndex, rect)]]

\* pdfapi.MergeRaw: one document holding the segments' pages in list order
MergeRaw(segments) == [kind |-> "merged", pages |-> segments]

\* rotatePDFToLandscape: the 2x2 N-up slides of a document
rotatePDFToLandscape(doc) == [kind |-> "nup", of |-> doc]

openPdfAnyPassword(pdf, password) == NoError

\* ReadValidateAndOptimize with the password of the request: an encrypted
\* source opens only with its password, any other source opens with any
openPdf(pdf, password) ==
    IF pdf.userPW # "" /\ password # pdf.userPW
    THEN ErrWrongPassword
    ELSE NoError

(***************************************************************************)
(* deriveFilename and the filename of the complete notification.  A string  *)
(* is the sequence of its characters; "TAB" is the character 0x09.          *)
(***************************************************************************)
\* the characters strings.TrimSpace removes (of those that occur in the model)
WhiteSpace == {" ", "TAB"}

\* the characters invalidFilenameChars matches: < > : " / \ | ? * and 0x00-0x1F
InvalidFilenameChars == {"<", ">", ":", "\"", "/", "\\", "|", "?", "*", "TAB"}

DefaultBase == <<"t", "r", "i", "m", "m", "e", "d", "-", "s", "c", "o", "r", "e">>

TrimmedSuffix == <<"-", "t", "r", "i", "m", "m", "e", "d", ".", "p", "d", "f">>

PdfExtension == <<".", "p", "d", "f">>

LandscapeSuffix == <<"-", "l", "a", "n", "d", "s", "c", "a", "p", "e">>

RECURSIVE TrimLeft(_, _)
TrimLeft(s, cutset) ==
    IF Len(s) > 0 /\ s[1] \in cutset THEN TrimLeft(Tail(s), cutset) ELSE s

RECURSIVE TrimRight(_, _)
TrimRight(s, cutset) ==
    IF Len(s) > 0 /\ s[Len(s)] \in cutset
    THEN TrimRight(SubSeq(s, 1, Len(s) - 1), cutset)
    ELSE s

TrimLeading(s, cutset) == TrimLeft(s, cutset)

\* strings.Trim: the leading and trailing characters of the cutset removed
Trim(s, cutset) == TrimRight(TrimLeft(s, cutset), cutset)

TrimSpace(s) == Trim(s, WhiteSpace)

\* invalidFilenameChars.ReplaceAllString(s, "_")
ReplaceAllString(s) ==
    [i \in 1..Len(s) |-> IF s[i] \in InvalidFilenameChars THEN "_" ELSE s[i]]

deriveFilename(title) ==
    LET trimmed0 == TrimSpace(title)
        trimmed == IF trimmed0 = <<>> THEN DefaultBase ELSE trimmed0
        sanitized0 == Trim(ReplaceAllString(trimmed), {".", " "})
        sanitized == IF sanitized0 = <<>> THEN DefaultBase ELSE sanitized0
    IN  sanitized \o TrimmedSuffix

\* the positions at which old occurs in s
Occurrences(s, old) ==
    {i \in 1..(Len(s) - Len(old) + 1) : SubSeq(s, i, i + Len(old) - 1) = old}

\* strings.Replace(s, old, new, 1): the first occurrence of old replaced
ReplaceFirst(s, old, new) ==
    IF Occurrences(s, old) = {}
    THEN s
    ELSE LET i == CHOOSE i \in Occurrences(s, old) :
                    \A j \in Occurrences(s, old) : i <= j
         IN  SubSeq(s, 1, i - 1) \o new \o SubSeq(s, i + Len(old), Len(s))

\* TrimScoreWithProgress 239-246: the filename of the complete notification
completeFilename(title, orientation) ==
    LET filename == deriveFilename(title)
        orientationSuffix == IF orientation = "landscape" THEN LandscapeSuffix ELSE <<>>
    IN  IF orientationSuffix # <<>>
        THEN ReplaceFirst(filename, PdfExtension, orientationSuffix \o PdfExtension)
        ELSE filename

(***************************************************************************)
(* State of one request.                                                    *)
(***************************************************************************)
IsStream == req.rpc = "TrimScoreWithProgress"

loc0 ==
    [defaultAreas |-> <<>>, pageOverrides |-> <<>>, pagesToProcess |-> <<>>,
     i |-> 0, j |-> 0, areasForPage |-> <<>>, segments |-> <<>>, result |-> Nil]

Pending ==
    [status |-> "pending", code |-> "", err |-> NoError, pdf |-> Nil,
     filename |-> <<>>, message |-> ""]

FailureWithSegments(code, err) ==
    [status |-> "error", code |-> code, err |-> err,
     pdf |-> IF Len(loc.segments) > 0 THEN MergeRaw(loc.segments) ELSE Nil,
     filename |-> <<>>, message |-> ""]

Failure(code, err) ==
    [status |-> "error", code |-> code, err |-> err, pdf |-> Nil,
     filename |-> <<>>, message |-> ""]

\* "トリミング済みPDFを生成しました"
MessageGenerated == "trimmed pdf generated"

\* the response of TrimScore, and the content of the complete notification
Success(pdf) ==
    [status |-> "ok", code |-> "", err |-> NoError, pdf |-> pdf,
     filename |-> IF IsStream
                  THEN completeFilename(req.title, req.orientation)
                  ELSE deriveFilename(req.title),
     message |-> MessageGenerated]

ProgressAsComplete(stage, progress) ==
    [stage |-> "complete", progress |-> 100, pdf |-> Nil, filename |-> <<>>]

Progress(stage, progress) ==
    [stage |-> stage, progress |-> progress, pdf |-> Nil, filename |-> <<>>]

\* how the handlers return an error of normalizeAreas and of their own checks
validationFailure(err) == Failure(CodeInvalidArgument, err)

buildFailureAlwaysInternal(err) == Failure(CodeInternal, err)

\* how the handlers return an error of buildTrimmedPDF(WithProgress)
buildFailure(err) ==
    IF err = ErrWrongPassword
    THEN Failure(CodeInvalidArgument, ErrBadPassword)
    ELSE Failure(CodeInternal, err)

areasForAppended(pageOverrides, defaultAreas, pageIndex) ==
    IF pageIndex \in DOMAIN pageOverrides
    THEN defaultAreas \o pageOverrides[pageIndex]
    ELSE defaultAreas

areasForDefaultOnly(pageOverrides, defaultAreas, pageIndex) == defaultAreas

\* the areas a page is cut with: its override, or the default areas
areasFor(pageOverrides, defaultAreas, pageIndex) ==
    LET override == IF pageIndex \in DOMAIN pageOverrides
                    THEN pageOverrides[pageIndex]
                    ELSE <<>>
    IN  IF Len(override) = 0 THEN defaultAreas ELSE override

assembleAlwaysMerged(segments) == MergeRaw(segments)

\* the output for a non-empty list of segments: the only segment as it is,
\* or the merge of them all
assembleSegments(segments) ==
    IF Len(segments) = 1 THEN segments[1] ELSE MergeRaw(segments)

\* the notifications on the stream after one more stream.Send (TrimScore sends none)
Sent(stage, progress) ==
    IF IsStream THEN Append(sent, Progress(stage, progress)) ELSE sent

\* a stream.Send fails only on a stream, and only when the transport does
SendFails(sendOk) == IsStream /\ ~sendOk

Goto(label, newLoc, newSent) ==
    /\ pc' = label
    /\ loc' = newLoc
    /\ sent' = newSent
    /\ resp' = resp
    /\ UNCHANGED <<req, unitVars>>

Return(response, newSent) ==
    /\ pc' = "done"
    /\ loc' = loc
    /\ sent' = newSent
    /\ resp' = response
    /\ UNCHANGED <<req, unitVars>>

(***************************************************************************)
(* The steps of the handlers.                                               *)
(***************************************************************************)
\* TrimScore 79-82, TrimScoreWithProgress 157-169
CheckPdfFile ==
    /\ pc = "start"
    /\ \E sendOk \in BOOLEAN :
        IF SendFails(sendOk)
        THEN Return(Failure(CodeUnknown, ErrSend), sent)
        ELSE IF req.pdf.empty
             THEN Return(validationFailure(ErrEmptyPdf), Sent("parsing", 10))
             ELSE Goto("normalize", loc, Sent("parsing", 10))

\* TrimScore 84-114, TrimScoreWithProgress 171-219
NormalizeRequest ==
    /\ pc = "normalize"
    /\ \E sendOk \in BOOLEAN, send2Ok \in BOOLEAN :
        LET defaultAreas == normalizeAreas(req.areas)
            overrides == pageSettingsLoop(req.pageSettings, 1, <<>>)
            sent25 == Sent("parsing", 25)
        IN  IF SendFails(sendOk)
            THEN Return(Failure(CodeUnknown, ErrSend), sent)
            ELSE IF defaultAreas.err # NoError
            THEN Return(validationFailure(defaultAreas.err), sent25)
            ELSE IF overrides.err # NoError
            THEN Return(validationFailure(overrides.err), sent25)
            ELSE IF Len(defaultAreas.areas) = 0
                    /\ DOMAIN overrides.pageOverrides = {}
            THEN Return(validationFailure(ErrNoAreas), sent25)
            ELSE IF SendFails(send2Ok)
            THEN Return(Failure(CodeUnknown, ErrSend), sent25)
            ELSE Goto("open",
                      [loc EXCEPT !.defaultAreas = defaultAreas.areas,
                                  !.pageOverrides = overrides.pageOverrides],
                      IF IsStream
                      THEN Append(sent25, Progress("processing", 40))
                      ELSE sent)

\* buildTrimmedPDF 370-389, buildTrimmedPDFWithProgress 472-500
OpenPdf ==
    /\ pc = "open"
    /\ \E sendOk \in BOOLEAN :
        IF Len(loc.defaultAreas) = 0 /\ DOMAIN loc.pageOverrides = {}
        THEN Return(buildFailure(ErrNoAreas), sent)
        ELSE IF SendFails(sendOk)
        THEN Return(buildFailure(ErrSend), sent)
        ELSE IF openPdf(req.pdf, req.password) # NoError
        THEN Return(buildFailure(openPdf(req.pdf, req.password)),
                    Sent("processing", 45))
        ELSE IF req.pdf.pageCount = 0
        THEN Return(buildFailure(ErrNoPages), Sent("processing", 45))
        ELSE Goto("select", loc, Sent("processing", 45))

overridesOutsideIgnored(pageOverrides, pageCount) == {}

\* the keys of the override map that are not pages of the source
overridesOutside(pageOverrides, pageCount) ==
    {k \in DOMAIN pageOverrides : k < 1 \/ k > pageCount}

\* buildTrimmedPDF 391-402, buildTrimmedPDFWithProgress 502-523; the range
\* loop visits the keys of the map in an unspecified order
SelectPages ==
    /\ pc = "select"
    /\ \E sendOk \in BOOLEAN :
        LET pages == resolvePagesToProcess(req.pdf.pageCount, req.includePages)
            outside == overridesOutside(loc.pageOverrides, req.pdf.pageCount)
        IN  IF SendFails(sendOk)
            THEN Return(buildFailure(ErrSend), sent)
            ELSE IF pages.err # NoError
            THEN Return(buildFailure(pages.err), Sent("processing", 50))
            ELSE IF outside # {}
            THEN \E pageNumber \in outside :
                    Return(buildFailure(ErrOverrideOutOfRange(pageNumber)),
                           Sent("processing", 50))
            ELSE Goto(IF Len(pages.pages) = 0 THEN "assemble" ELSE "page",
                      [loc EXCEPT !.pagesToProcess = pages.pages, !.i = 1],
                      Sent("processing", 50))

\* progress := 55 + int(float64(i)/float64(totalPages)*25), i counted from 0
pageProgress(i, totalPages) == 55 + ((i * 25) \div totalPages)

\* buildTrimmedPDF 404-424, buildTrimmedPDFWithProgress 526-555
BeginPage ==
    /\ pc = "page"
    /\ loc.i <= Len(loc.pagesToProcess)
    /\ \E sendOk \in BOOLEAN, libOk \in BOOLEAN :
        LET pageIndex == loc.pagesToProcess[loc.i]
            areasForPage == areasFor(loc.pageOverrides, loc.defaultAreas, pageIndex)
            progressed == Sent("processing",
                               pageProgress(loc.i - 1, Len(loc.pagesToProcess)))
        IN  IF SendFails(sendOk)
            THEN Return(buildFailure(ErrSend), sent)
            ELSE IF Len(areasForPage) = 0
            THEN Return(buildFailure(ErrNoAreasForPage(pageIndex)), progressed)
            ELSE IF ~libOk
            THEN Return(buildFailure(ErrPdfLibrary(pageIndex)), progressed)
            ELSE IF req.pdf.box = Nil
            THEN Return(buildFailure(ErrNoGeometry(pageIndex)), progressed)
            ELSE Goto("area",
                      [loc EXCEPT !.areasForPage = areasForPage, !.j = 1],
                      progressed)

\* buildTrimmedPDF 426-438, buildTrimmedPDFWithProgress 557-569: one turn of
\* the loop over the areas of the page, and the loops' ends
ExtractSegment ==
    /\ pc = "area"
    /\ \E libOk \in BOOLEAN :
        LET pageIndex == loc.pagesToProcess[loc.i]
            rect == rectFromArea(req.pdf.box, loc.areasForPage[loc.j])
            trimmed == extractTrimmedSegment(req.pdf, pageIndex, rect.rect, libOk)
            lastArea == loc.j = Len(loc.areasForPage)
            lastPage == loc.i = Len(loc.pagesToProcess)
        IN  IF rect.err # NoError
            THEN Return(buildFailure(rect.err), sent)
            ELSE IF trimmed.err # NoError
            THEN Return(buildFailure(trimmed.err), sent)
            ELSE Goto(IF ~lastArea THEN "area"
                      ELSE IF ~lastPage THEN "page" ELSE "assemble",
                      [loc EXCEPT !.segments = Append(@, trimmed.segment),
                                  !.j = IF lastArea THEN 0 ELSE @ + 1,
                                  !.i = IF lastArea THEN @ + 1 ELSE @],
                      sent)

\* buildTrimmedPDF 440-459, buildTrimmedPDFWithProgress 571-599
Assemble ==
    /\ pc = "assemble"
    /\ \E sendOk \in BOOLEAN, libOk \in BOOLEAN :
        IF Len(loc.segments) = 0
        THEN Return(buildFailure(ErrNoSegments), sent)
        ELSE IF SendFails(sendOk)
        THEN Return(buildFailure(ErrSend), sent)
        ELSE IF Len(loc.segments) > 1 /\ ~libOk
        THEN Return(buildFailure(ErrMerge), Sent("generating", 85))
        ELSE Goto(IF IsStream THEN "orient" ELSE "respond",
                  [loc EXCEPT !.result = assembleSegments(loc.segments)],
                  Sent("generating", 85))

\* buildTrimmedPDFWithProgress 601-617
ConvertOrientation ==
    /\ pc = "orient"
    /\ \E sendOk \in BOOLEAN, libOk \in BOOLEAN :
        IF req.orientation # "landscape"
        THEN Goto("respond", loc, sent)
        ELSE IF SendFails(sendOk)
        THEN Return(buildFailure(ErrSend), sent)
        ELSE IF ~libOk
        THEN Return(buildFailure(ErrNUp), Sent("generating", 95))
        ELSE Goto("respond",
                  [loc EXCEPT !.result = rotatePDFToLandscape(loc.result)],
                  Sent("generating", 95))

\* TrimScore 130-137, TrimScoreWithProgress 238-258
Respond ==
    /\ pc = "respond"
    /\ \E sendOk \in BOOLEAN :
        IF SendFails(sendOk)
        THEN Return(Failure(CodeUnknown, ErrSend), sent)
        ELSE Return(Success(loc.result),
                    IF IsStream
                    THEN Append(sent, [stage |-> "complete", progress |-> 100,
                                       pdf |-> loc.result,
                                       filename |-> Success(loc.result).filename])
                    ELSE sent)

Next ==
    \/ CheckPdfFile
    \/ NormalizeRequest
    \/ OpenPdf
    \/ SelectPages
    \/ BeginPage
    \/ ExtractSegment
    \/ Assemble
    \/ ConvertOrientation
    \/ Respond

(***************************************************************************)
(* Requests.                                                                *)
(***************************************************************************)
Request(rpc, orientation, pdf, password, areas, pageSettings, includePages) ==
    [rpc |-> rpc, orientation |-> orientation, pdf |-> pdf, password |-> password,
     areas |-> areas, pageSettings |-> pageSettings, includePages |-> includePages,
     title |-> <<>>]

Titled(request, title) == [request EXCEPT !.title = title]

\* the two procedures; the orientation is read by TrimScoreWithProgress only
Calls ==
    {<<"TrimScore", "">>, <<"TrimScoreWithProgress", "">>,
     <<"TrimScoreWithProgress", "landscape">>}

LetterBox == Rectangle(0, 0, 3 * One, 4 * One)

\* an unencrypted source of n pages, each with the same crop box
Pdf(n) ==
    [empty |-> FALSE, pageCount |-> n, userPW |-> "", box |-> LetterBox, rotate |-> 0]

StripHeight == One \div 5

\* m horizontal strips across the page, listed bottom strip first
DefaultStrips(m) ==
    [k \in 1..m |-> CropArea(One - k * StripHeight, 0, One, StripHeight)]

\* k strips of the right half of the page, listed bottom strip first
OverrideStrips(k) ==
    [x \in 1..k |->
        CropArea(One - x * StripHeight, One \div 2, One \div 2, StripHeight)]

PageSetting(pageNumber, areas) == [pageNumber |-> pageNumber, areas |-> areas]

InitPipeline(requests) ==
    /\ req \in requests
    /\ pc = "start"
    /\ loc = loc0
    /\ sent = <<>>
    /\ resp = Pending
    /\ arg = <<>>
    /\ ret = <<>>

(***************************************************************************)
(* Requests on readable, unencrypted sources with valid areas: the segments *)
(* buildTrimmedPDF produces.                                                *)
(***************************************************************************)
BuildRequests ==
    {Request(c[1], c[2], Pdf(n), "", DefaultStrips(m), settings, include) :
        c \in Calls, n \in 1..MaxPages, m \in 0..MaxStrips,
        settings \in SeqsUpTo({PageSetting(q, OverrideStrips(k)) :
                                  q \in 1..MaxPages, k \in 0..MaxStrips}, 1),
        include \in SeqsUpTo(1..MaxPages, MaxSelect)}

(***************************************************************************)
(* Requests with faulty fields: empty, encrypted and box-less sources,      *)
(* missing and wrong passwords, areas outside the page, invalid page        *)
(* numbers, include lists out of range.                                     *)
(***************************************************************************)
EmptyPdf == [Pdf(0) EXCEPT !.empty = TRUE]

Sources ==
    {EmptyPdf, Pdf(0), Pdf(MaxPages), [Pdf(1) EXCEPT !.box = Nil],
     [Pdf(MaxPages) EXCEPT !.userPW = "secret"]}

Passwords == {"", "secret", "guess"}

\* an area whose left edge is the right edge of the page
OutsideArea == CropArea(0, One, One \div 2, One \div 2)

FaultyRequests ==
    {Request(c[1], c[2], pdf, password, areas, settings, include) :
        c \in Calls, pdf \in Sources, password \in Passwords,
        areas \in {DefaultStrips(0), DefaultStrips(1), <<OutsideArea>>},
        settings \in SeqsUpTo({PageSetting(q, a) :
                                  q \in {0, 1, MaxPages + 1},
                                  a \in {OverrideStrips(1), <<OutsideArea>>}}, 1),
        include \in SeqsUpTo(0..(MaxPages + 1), MaxSelect)}

(***************************************************************************)
(* Requests with a page setting that carries no area, alone or after a     *)
(* setting that overrides page 1.                                           *)
(***************************************************************************)
EmptySettingRequests ==
    {Request(c[1], c[2], Pdf(MaxPages), "", DefaultStrips(m), before \o <<empty>>, <<>>) :
        c \in Calls, m \in 0..1,
        before \in {<<>>, <<PageSetting(1, OverrideStrips(1))>>},
        empty \in {PageSetting(q, <<>>) : q \in {0, 1, MaxPages + 1}}}

(***************************************************************************)
(* Requests with two or three page settings for page 1, each with no, one   *)
(* or two areas.                                                            *)
(***************************************************************************)
RepeatedSettingRequests ==
    {Request(c[1], c[2], Pdf(MaxPages), "", DefaultStrips(1), settings, <<>>) :
        c \in Calls,
        settings \in SeqsUpTo({PageSetting(1, OverrideStrips(k)) : k \in 0..2}, 3)
                        \ SeqsUpTo({PageSetting(1, OverrideStrips(k)) : k \in 0..2}, 1)}

Init ==
    InitPipeline(BuildRequests \cup FaultyRequests \cup EmptySettingRequests
                    \cup RepeatedSettingRequests)

Spec == Init /\ [][Next]_vars

(***************************************************************************)
(* The request pipeline on long sources: TrimScoreWithProgress, in either   *)
(* orientation, on sources of one page and of up to MaxProgressPages pages, *)
(* all pages selected, one default area.                                    *)
(***************************************************************************)
ProgressRequests ==
    {Request("TrimScoreWithProgress", orientation, Pdf(n), "", DefaultStrips(1),
             <<>>, <<>>) :
        orientation \in {"", "landscape"},
        n \in {1, MaxProgressPages - 1, MaxProgressPages}}

InitProgress == InitPipeline(ProgressRequests)

SpecProgress == InitProgress /\ [][Next]_vars

(***************************************************************************)
(* The same request served twice: by TrimScore, and then, with every field  *)
(* unchanged, by TrimScore again or by TrimScoreWithProgress.  ret keeps    *)
(* the outcome of the first call.                                           *)
(***************************************************************************)
\* two page settings with areas for pages after the last one
OutsideSettings ==
    <<PageSetting(MaxPages + 1, OverrideStrips(1)),
      PageSetting(MaxPages + 2, OverrideStrips(1))>>

TwiceRequests ==
    {Titled(Request("TrimScore", orientation, pdf, "", areas, settings, include),
            title) :
        orientation \in {"", "portrait"},
        pdf \in {Pdf(MaxPages), [Pdf(MaxPages) EXCEPT !.userPW = "secret"], EmptyPdf},
        areas \in {DefaultStrips(1), <<OutsideArea>>},
        settings \in {<<>>, <<PageSetting(1, OverrideStrips(MaxStrips))>>,
                      <<PageSetting(MaxPages + 1, OverrideStrips(1))>>,
                      OutsideSettings},
        include \in {<<>>, <<0>>},
        title \in {<<>>, <<"p">> \o PdfExtension}}

InitTwice == InitPipeline(TwiceRequests)

\* the client sends the request once more, to either procedure
CallAgain ==
    /\ pc = "done"
    /\ Len(ret) = 0
    /\ ret' = <<[rpc |-> req.rpc, resp |-> resp]>>
    /\ \E rpc \in {"TrimScore", "TrimScoreWithProgress"} :
        req' = [req EXCEPT !.rpc = rpc]
    /\ pc' = "start"
    /\ loc' = loc0
    /\ sent' = <<>>
    /\ resp' = Pending
    /\ UNCHANGED arg

NextTwice == Next \/ CallAgain

SpecTwice == InitTwice /\ [][NextTwice]_vars

(***************************************************************************)
(* Claims about the request pipeline (checked under Spec).                  *)
(***************************************************************************)
Done == pc = "done"

\* buildTrimmedPDF(WithProgress) has returned its bytes
BuildSucceeded == pc = "respond" \/ resp.status = "ok"

Elements(s) == {s[i] : i \in 1..Len(s)}

Least(S) == CHOOSE k \in S : \A h \in S : k <= h

\* the segment cut from page p with a normalized area
ExpectedSegment(p, area) ==
    extractTrimmedSegment(req.pdf, p, rectFromArea(req.pdf.box, area).rect, TRUE).segment

ExpectedSegments(p, areas) == [a \in 1..Len(areas) |-> ExpectedSegment(p, areas[a])]

SegmentsOfPage(p) == SelectSeq(loc.segments, LAMBDA seg : seg.page = p)

\* the page settings that carry at least one area
Overriding ==
    SelectSeq(req.pageSettings, LAMBDA st : st # Nil /\ Len(st.areas) > 0)

SelectedPages ==
    IF Len(req.includePages) = 0
    THEN 1..req.pdf.pageCount
    ELSE Elements(req.includePages)

AllIncluded == SelectedPages = 1..req.pdf.pageCount

DefaultAreaSet == normalizeAreas(req.areas).areas

\* C2: N pages, M default areas, no overrides, all pages included: a
\* successful build has N*M segments, the one at (p-1)*M + a cut from page p
\* with the a-th area of the sorted AreaSet; segments are appended in that
\* order, so every segment list on the way is a prefix of it.
C2_PageMajorAreaMinor ==
    (pc \in {"page", "area", "assemble", "orient", "respond", "done"}
        /\ Len(Overriding) = 0 /\ AllIncluded) =>
        LET N == req.pdf.pageCount
            M == Len(DefaultAreaSet)
        IN  /\ BuildSucceeded => Len(loc.segments) = N * M
            /\ Len(loc.segments) <= N * M
            /\ \A k \in 1..Len(loc.segments) :
                loc.segments[k] =
                    ExpectedSegment(((k - 1) \div M) + 1,
                                    DefaultAreaSet[((k - 1) % M) + 1])

\* two pages named in descending order, two areas listed bottom first
C2_Witness ==
    /\ resp.status = "ok"
    /\ Len(Overriding) = 0
    /\ req.pdf.pageCount = 2
    /\ req.includePages = <<2, 1>>
    /\ Len(req.areas) = 2
    /\ DefaultAreaSet # req.areas
    /\ Len(loc.segments) = 4

\* C3: one page setting with K >= 1 areas for a selected page q: page q
\* contributes exactly its K override areas, every other selected page the M
\* default areas, (N-1)*M + K segments in all for N selected pages.
C3_OverrideReplacesDefault ==
    (BuildSucceeded /\ Len(Overriding) = 1
        /\ Overriding[1].pageNumber \in SelectedPages) =>
        LET q == Overriding[1].pageNumber
            override == normalizeAreas(Overriding[1].areas).areas
        IN  /\ SegmentsOfPage(q) = ExpectedSegments(q, override)
            /\ \A p \in SelectedPages \ {q} :
                SegmentsOfPage(p) = ExpectedSegments(p, DefaultAreaSet)
            /\ Len(loc.segments) =
                (Cardinality(SelectedPages) - 1) * Len(DefaultAreaSet)
                    + Len(override)

\* page 1 of two pages overridden with two areas, one default area
C3_Witness ==
    /\ resp.status = "ok"
    /\ Len(Overriding) = 1
    /\ Overriding[1].pageNumber = 1
    /\ Len(Overriding[1].areas) = 2
    /\ Len(req.areas) = 1
    /\ SelectedPages = {1, 2}
    /\ Len(loc.segments) = 3

Landscape == IsStream /\ req.orientation = "landscape"

\* C4 as stated: with exactly one (page, area) pair the bytes returned are the
\* bytes of that segment.
C4_SingleSegmentReturned ==
    (resp.status = "ok" /\ Len(loc.segments) = 1) => resp.pdf = loc.segments[1]

\* C4 as amended: the single segment is never merged; it is returned as it is
\* unless TrimScoreWithProgress was asked for landscape, which returns the
\* N-up conversion of that segment.
C4_SingleSegmentNotMerged ==
    (resp.status = "ok" /\ Len(loc.segments) = 1) =>
        /\ resp.pdf = IF Landscape
                      THEN rotatePDFToLandscape(loc.segments[1])
                      ELSE loc.segments[1]
        /\ IsStream => sent[Len(sent)].pdf = resp.pdf

C4_Witness ==
    /\ resp.status = "ok"
    /\ Len(loc.segments) = 1
    /\ IsStream
    /\ ~Landscape
    /\ Len(Overriding) = 0
    /\ resp.pdf = ExpectedSegment(1, DefaultAreaSet[1])

Encrypted == ~req.pdf.empty /\ req.pdf.userPW # ""

WrongPassword == req.password # req.pdf.userPW

\* the areas and page settings pass the handler's checks
PassesValidation ==
    LET overrides == pageSettingsLoop(req.pageSettings, 1, <<>>)
    IN  /\ normalizeAreas(req.areas).err = NoError
        /\ overrides.err = NoError
        /\ (Len(DefaultAreaSet) > 0 \/ DOMAIN overrides.pageOverrides # {})

C6_PasswordCategoryDistinct ==
    (Done /\ resp.err = ErrBadPassword) =>
        /\ resp.code # validationFailure(ErrAreaOutOfBounds(1)).code
        /\ resp.code # buildFailure(ErrMerge).code

Readable ==
    /\ ~req.pdf.empty
    /\ openPdf(req.pdf, req.password) = NoError
    /\ req.pdf.pageCount >= 1

OutOfRange(k) ==
    req.includePages[k] < 1 \/ req.includePages[k] > req.pdf.pageCount

FirstOutOfRange ==
    LET k == CHOOSE k \in 1..Len(req.includePages) :
                /\ OutOfRange(k)
                /\ \A h \in 1..(k - 1) : ~OutOfRange(h)
    IN  req.includePages[k]

\* C7: on a readable source (and with areas and page settings that pass
\* validation) an include list with a page below 1 or above the page count
\* ends with a validation-category error naming the first such page, and no
\* output.
C7_IncludeOutOfRangeIsValidation ==
    (Done /\ Readable /\ PassesValidation /\ resp.err # ErrSend
        /\ \E k \in 1..Len(req.includePages) : OutOfRange(k)) =>
        /\ resp.status = "error"
        /\ resp.code = validationFailure(ErrAreaOutOfBounds(1)).code
        /\ resp.err = ErrIncludeOutOfRange(FirstOutOfRange)
        /\ resp.pdf = Nil

\* the override map the handler builds from the page settings
OverrideMap == pageSettingsLoop(req.pageSettings, 1, <<>>).pageOverrides

\* the pages the build goes through, in its order
PagesInOrder == resolvePagesToProcess(req.pdf.pageCount, req.includePages).pages

MissingAreas == {ErrNoAreas.msg, ErrNoAreasForPage(0).msg}

\* C14 as stated: with no default areas and a page setting that carries areas,
\* the request is not rejected for missing crop areas.
C14_OverrideSufficesForAreas ==
    (Done /\ Len(req.areas) = 0 /\ Len(Overriding) > 0) =>
        resp.err.msg \notin MissingAreas

\* C14 as amended: the request as a whole is rejected for missing crop areas
\* only if there are no default areas and no override; with an override, a
\* selected page that has none of its own is still rejected for missing crop
\* areas of that page; nothing is rejected for missing crop areas when every
\* selected page has an override.
C14_NoAreasOnlyWithoutAnyOverride ==
    Done =>
        /\ resp.err = ErrNoAreas =>
            Len(DefaultAreaSet) = 0 /\ Len(Overriding) = 0
        /\ (Len(req.areas) = 0 /\ Len(Overriding) > 0) => resp.err # ErrNoAreas
        /\ resp.err.msg = ErrNoAreasForPage(0).msg =>
            /\ resp.err.n \in SelectedPages
            /\ resp.err.n \notin DOMAIN OverrideMap
            /\ Len(DefaultAreaSet) = 0
        /\ (Len(req.areas) = 0 /\ PassesValidation
                /\ SelectedPages \subseteq DOMAIN OverrideMap) =>
            resp.err.msg \notin MissingAreas

\* no default areas, page 1 of two overridden and the only page selected
C14_Witness ==
    /\ resp.status = "ok"
    /\ Len(req.areas) = 0
    /\ Len(Overriding) = 1
    /\ Overriding[1].pageNumber = 1
    /\ req.pdf.pageCount = 2
    /\ req.includePages = <<1>>
    /\ Len(loc.segments) = Len(OverrideMap[1])

\* the page numbers, above the page count, of the page settings with areas
AbovePageCount ==
    {Overriding[k].pageNumber : k \in 1..Len(Overriding)}
        \ (0..req.pdf.pageCount)

IncludeInRange == \A k \in 1..Len(req.includePages) : ~OutOfRange(k)

\* C15: if a page setting with at least one area names a page above the page
\* count, the request fails and no segment is extracted, whether or not that
\* page is among the selected pages; on a readable source, with valid areas,
\* page settings and include list, the error is the one of that page setting.
C15_OverrideAbovePageCountFails ==
    AbovePageCount # {} =>
        /\ Len(loc.segments) = 0
        /\ pc \notin {"page", "area", "assemble", "orient", "respond"}
        /\ resp.status # "ok"
        /\ Done => resp.status = "error" /\ resp.pdf = Nil
        /\ (Done /\ Readable /\ PassesValidation /\ IncludeInRange
                /\ resp.err # ErrSend) =>
            \E q \in AbovePageCount : resp.err = ErrOverrideOutOfRange(q)

\* an override of the page after the last one, only page 1 selected
C15_Witness ==
    /\ Done
    /\ Readable
    /\ AbovePageCount = {req.pdf.pageCount + 1}
    /\ req.includePages = <<1>>
    /\ resp.err = ErrOverrideOutOfRange(req.pdf.pageCount + 1)
    /\ Len(loc.segments) = 0

EmptySetting(st) == st # Nil /\ Len(st.areas) = 0

WithoutEmptySettings == SelectSeq(req.pageSettings, LAMBDA st : ~EmptySetting(st))

\* C16: a page setting with zero areas, whatever page number it carries, is
\* treated as absent: the handler's pass over the page settings ends as it
\* does without that setting (same override map, no error of its own), the
\* page it names has no entry of its own and is cut with the default areas.
C16_EmptySettingIsAbsent ==
    (pc # "start" /\ \E k \in 1..Len(req.pageSettings) :
                        EmptySetting(req.pageSettings[k])) =>
        /\ pageSettingsLoop(req.pageSettings, 1, <<>>)
            = pageSettingsLoop(WithoutEmptySettings, 1, <<>>)
        /\ pc \notin {"normalize", "done"} =>
            loc.pageOverrides
                = pageSettingsLoop(WithoutEmptySettings, 1, <<>>).pageOverrides
        /\ (Done /\ resp.err.msg = ErrInvalidPageNumber(0).msg) =>
            \E k \in 1..Len(WithoutEmptySettings) :
                /\ WithoutEmptySettings[k] # Nil
                /\ WithoutEmptySettings[k].pageNumber = resp.err.n

\* the segments of every selected page, in the order of the build
RECURSIVE SegmentsFrom(_, _)
SegmentsFrom(pages, i) ==
    IF i > Len(pages)
    THEN <<>>
    ELSE ExpectedSegments(pages[i], areasFor(OverrideMap, DefaultAreaSet, pages[i]))
            \o SegmentsFrom(pages, i + 1)

\* C17: a request that fails at any step returns an error and no bytes, also
\* when segments had been extracted before; no notification carries bytes
\* before the final one; bytes are returned only when every (page, area) pair
\* produced its segment, and they are made of all of them.
C17_NoPartialOutput ==
    /\ resp.status # "ok" => resp.pdf = Nil
    /\ \A k \in 1..Len(sent) :
        sent[k].pdf # Nil =>
            resp.status = "ok" /\ k = Len(sent) /\ sent[k].pdf = resp.pdf
    /\ resp.status = "ok" =>
        /\ loc.segments = SegmentsFrom(PagesInOrder, 1)
        /\ resp.pdf = IF Landscape
                      THEN rotatePDFToLandscape(assembleSegments(loc.segments))
                      ELSE assembleSegments(loc.segments)

\* a failure after the segments of the first page had been extracted
C17_Witness ==
    /\ Done
    /\ resp.status = "error"
    /\ Len(loc.segments) >= 2
    /\ Len(loc.segments) < Len(SegmentsFrom(PagesInOrder, 1))
    /\ resp.pdf = Nil
    /\ \A k \in 1..Len(sent) : sent[k].pdf = Nil

\* the errors of each step of the pipeline
StepErrors(step) ==
    CASE step = "receive" -> {ErrEmptyPdf.msg}
      [] step = "normalize" ->
            {ErrAreaOutOfBounds(0).msg, ErrNoValidAreas.msg,
             ErrInvalidPageNumber(0).msg, ErrNoAreas.msg}
      [] step = "open" -> {ErrBadPassword.msg, ErrNoPages.msg}
      [] step = "select" ->
            {ErrIncludeOutOfRange(0).msg, ErrNoValidPages.msg,
             ErrOverrideOutOfRange(0).msg}
      [] step = "segments" ->
            {ErrNoAreasForPage(0).msg, ErrNoGeometry(0).msg, ErrRectOutside.msg,
             ErrZeroSize.msg, ErrPdfLibrary(0).msg}
      [] step = "assemble" -> {ErrNoSegments.msg, ErrMerge.msg, ErrNUp.msg}

\* the request is such that the step, once reached, fails
Faulty(step) ==
    CASE step = "receive" -> req.pdf.empty
      [] step = "normalize" -> ~PassesValidation
      [] step = "open" -> (req.pdf.userPW # "" /\ WrongPassword) \/ req.pdf.pageCount = 0
      [] step = "select" ->
            \/ ~IncludeInRange
            \/ \E k \in 1..Len(Overriding) :
                Overriding[k].pageNumber \notin 1..req.pdf.pageCount

\* the error of a finished request is the error of the first faulty step of
\* the order; with no faulty step among them it is an error of a later step
ErrorOfFirstFaulty(order) ==
    (Done /\ resp.err # ErrSend) =>
        LET faulty == {k \in 1..Len(order) : Faulty(order[k])}
        IN  IF faulty # {}
            THEN /\ resp.status = "error"
                 /\ resp.err.msg \in StepErrors(order[Least(faulty)])
            ELSE \/ resp.status = "ok"
                 \/ resp.err.msg \in StepErrors("segments") \cup StepErrors("assemble")

\* how far the handler has come
Position ==
    CASE pc = "start" -> 0
      [] pc = "normalize" -> 1
      [] pc = "open" -> 2
      [] pc = "select" -> 3
      [] pc = "page" -> 10 * (MaxStrips + 2) * loc.i
      [] pc = "area" -> 10 * (MaxStrips + 2) * loc.i + loc.j
      [] pc = "assemble" -> 10 * (MaxStrips + 2) * (Len(loc.pagesToProcess) + 1)
      [] pc = "orient" -> 10 * (MaxStrips + 2) * (Len(loc.pagesToProcess) + 2)
      [] pc = "respond" -> 10 * (MaxStrips + 2) * (Len(loc.pagesToProcess) + 3)
      [] pc = "done" -> 10 * (MaxStrips + 2) * (Len(loc.pagesToProcess) + 4)

CallerInputErrors ==
    {ErrAreaOutOfBounds(0).msg, ErrNoValidAreas.msg, ErrIncludeOutOfRange(0).msg,
     ErrOverrideOutOfRange(0).msg, ErrNoGeometry(0).msg, ErrRectOutside.msg}

StructuralErrors == {ErrPdfLibrary(0).msg, ErrMerge.msg, ErrNUp.msg}

\* C21: an error caused by caller input (area out of bounds, zero valid areas,
\* include page out of range, override page out of range, missing page
\* geometry, crop region outside page bounds) is returned in the validation
\* category, and only structural failures are returned in the internal
\* category.
C21_CallerErrorsInValidationCategory ==
    (Done /\ resp.status = "error") =>
        /\ resp.err.msg \in CallerInputErrors => resp.code = CodeInvalidArgument
        /\ resp.code = CodeInternal => resp.err.msg \in StructuralErrors

\* C23: whenever the build reaches the assembly step the segment list holds at
\* least one segment, and no request ends with the empty-segment-list error.
C23_AssemblyHasSegments ==
    /\ pc = "assemble" => Len(loc.segments) >= 1
    /\ resp.err # ErrNoSegments

\* the assembly step reached with the single segment of a one-page source
C23_Witness ==
    /\ pc = "assemble"
    /\ req.pdf.pageCount = 1
    /\ Len(req.includePages) = 0
    /\ Len(loc.pagesToProcess) = 1
    /\ Len(loc.segments) = 1

\* the percentages of the notifications of a run without failure
FullProgress ==
    <<10, 25, 40, 45, 50>>
    \o [k \in 1..Len(PagesInOrder) |-> pageProgress(k - 1, Len(PagesInOrder))]
    \o <<85>>
    \o (IF Landscape THEN <<95>> ELSE <<>>)

\* the number of notifications sent when a step fails
SentBefore(msg) ==
    CASE msg \in StepErrors("receive") -> 1
      [] msg \in StepErrors("normalize") -> 2
      [] msg \in StepErrors("open") -> 4
      [] msg \in StepErrors("select") -> 5
      [] OTHER -> 0

\* C24: when a TrimScoreWithProgress request fails, no notification sent has
\* stage "complete", percentage 100 or PDF bytes; the notifications sent are
\* those of the steps that were started, in their order (a prefix of the
\* notifications of a run without failure), and the request ends with the
\* error.
C24_NoCompleteOnFailure ==
    (IsStream /\ resp.status = "error") =>
        /\ Done
        /\ resp.pdf = Nil
        /\ \A k \in 1..Len(sent) :
            /\ sent[k].stage # "complete"
            /\ sent[k].progress < 100
            /\ sent[k].pdf = Nil
        /\ Len(sent) <= 5 => \A k \in 1..Len(sent) : sent[k].progress = FullProgress[k]
        /\ (Len(sent) > 5 /\ PagesInOrder # <<>>) =>
            /\ Len(sent) <= Len(FullProgress)
            /\ \A k \in 1..Len(sent) : sent[k].progress = FullProgress[k]
        /\ (resp.err # ErrSend /\ SentBefore(resp.err.msg) > 0) =>
            Len(sent) = SentBefore(resp.err.msg)

\* a failure while the second page is processed
C24_Witness ==
    /\ IsStream
    /\ Done
    /\ resp.status = "error"
    /\ loc.i = 2
    /\ Len(loc.segments) >= 1
    /\ Len(sent) = 7

\* the page settings for page q that carry areas
SettingsFor(q) ==
    SelectSeq(req.pageSettings,
              LAMBDA st : st # Nil /\ st.pageNumber = q /\ Len(st.areas) > 0)

\* C26: when several page settings carry the same page number, the override
\* in effect for that page is the normalized area list of the last of them
\* that has at least one area; a later setting for that page with zero areas
\* does not remove or change it.
C26_LastNonEmptySettingWins ==
    (pc \in {"open", "select", "page", "area", "assemble", "orient", "respond"}
        \/ resp.status = "ok") =>
        /\ \A q \in 1..(MaxPages + 1) :
            IF Len(SettingsFor(q)) = 0
            THEN q \notin DOMAIN loc.pageOverrides
            ELSE /\ q \in DOMAIN loc.pageOverrides
                 /\ loc.pageOverrides[q] =
                        normalizeAreas(SettingsFor(q)[Len(SettingsFor(q))].areas).areas
        /\ resp.status = "ok" =>
            \A q \in SelectedPages :
                Len(SettingsFor(q)) > 0 =>
                    SegmentsOfPage(q) =
                        ExpectedSegments(q,
                            normalizeAreas(SettingsFor(q)[Len(SettingsFor(q))].areas).areas)

\* page 1 set to one area, then to two areas, then to none: two areas are cut
C26_Witness ==
    /\ resp.status = "ok"
    /\ Len(req.pageSettings) = 3
    /\ \A k \in 1..3 : req.pageSettings[k].pageNumber = 1
    /\ Len(req.pageSettings[1].areas) = 1
    /\ Len(req.pageSettings[2].areas) = 2
    /\ Len(req.pageSettings[3].areas) = 0
    /\ Len(SegmentsOfPage(1)) = 2

(***************************************************************************)
(* Claims about a request served twice (checked under SpecTwice).           *)
(***************************************************************************)
\* a failure of the transport or of the pdf library, which the model draws
\* anew in every call
Drawn(response) == response.err.msg \in StructuralErrors \cup {ErrSend.msg}

BothDone == Done /\ Len(ret) = 1 /\ ~Drawn(resp) /\ ~Drawn(ret[1].resp)

\* C25: for the same request with an orientation other than "landscape", and
\* when every stream send succeeds, TrimScoreWithProgress and TrimScore have
\* the same outcome: the same error category and message, or the same output
\* bytes, filename and status message.
C25_StreamingSameOutcome ==
    (BothDone /\ ret[1].rpc = "TrimScore" /\ IsStream
        /\ req.orientation # "landscape") =>
        /\ resp.status = ret[1].resp.status
        /\ resp.code = ret[1].resp.code
        /\ resp.err = ret[1].resp.err
        /\ resp.pdf = ret[1].resp.pdf
        /\ resp.filename = ret[1].resp.filename
        /\ resp.message = ret[1].resp.message

\* C27: two runs of buildTrimmedPDF on the same inputs end with the same
\* result, and on failure with the same error naming the same page, also when
\* the override map holds more than one key outside 1..pageCount.
C27_BuildDeterministic ==
    (BothDone /\ ret[1].rpc = "TrimScore" /\ req.rpc = "TrimScore") =>
        resp = ret[1].resp

(***************************************************************************)
(* Claims about the progress notifications (checked under SpecProgress).    *)
(***************************************************************************)
\* C19: in a successful TrimScoreWithProgress run, for any number of selected
\* pages and either orientation, the percentages of the notifications are
\* strictly increasing, all lie in 0..100, and the last notification is the
\* only one with stage "complete"; it has percentage 100 and carries the
\* bytes returned.
C19_ProgressStrictlyIncreasing ==
    (IsStream /\ resp.status = "ok") =>
        /\ \A k \in 1..(Len(sent) - 1) : sent[k].progress < sent[k + 1].progress
        /\ \A k \in 1..Len(sent) : sent[k].progress \in 0..100
        /\ Len(sent) > 0
        /\ sent[Len(sent)].stage = "complete"
        /\ sent[Len(sent)].progress = 100
        /\ sent[Len(sent)].pdf = resp.pdf
        /\ \A k \in 1..(Len(sent) - 1) : sent[k].stage # "complete"

(***************************************************************************)
(* Claims about normalizeAreas (checked under SpecNormalize).               *)
(***************************************************************************)
Called == Len(ret) >= 1

Succeeded == Called /\ ret[1].err = NoError

NonNil(areas) == SelectSeq(areas, LAMBDA a : a # Nil)

WithinPage(a) ==
    /\ FLe(0, a.left)
    /\ FLe(0, a.top)
    /\ FLe(FAdd(a.left, a.width), One)
    /\ FLe(FAdd(a.top, a.height), One)
    /\ FGe(a.width, minAreaSize)
    /\ FGe(a.height, minAreaSize)

\* C1: every area normalizeAreas returns on success has 0 <= left, 0 <= top,
\* left + width <= 1, top + height <= 1, width >= 0.01 and height >= 0.01,
\* whatever the raw input values were.
C1_AreasWithinPage ==
    Succeeded => \A i \in 1..Len(ret[1].areas) : WithinPage(ret[1].areas[i])

InOrder(a, b) ==
    FLt(a.top, b.top) \/ (FEq(a.top, b.top) /\ FLe(a.left, b.left))

SameKey(a, b) == FEq(a.top, b.top) /\ FEq(a.left, b.left)

\* C9: on success the result is the clamped images of exactly the non-nil
\* entries (same multiset), ascending by top, then by left, and entries equal
\* in both keep their input order.
C9_SortedStablePermutation ==
    (Succeeded /\ Len(arg) > 0) =>
        LET src == NonNil(arg)
            out == ret[1].areas
        IN  /\ Len(out) = Len(src)
            /\ \E p \in Permutations(1..Len(src)) :
                /\ \A i \in 1..Len(out) : out[i] = clampedArea(src[p[i]])
                /\ \A i, j \in 1..Len(out) :
                    i < j => /\ InOrder(out[i], out[j])
                             /\ SameKey(out[i], out[j]) => p[i] < p[j]

BeyondLastStrip(area) ==
    \/ FGt(clamp(area.left, 0, One), One - minAreaSize)
    \/ FGt(clamp(area.top, 0, One), One - minAreaSize)

\* the entry reaches past the right or the bottom edge of the page
Oversized(area) ==
    \/ FGt(FAdd(clamp(area.left, 0, One), clamp(area.width, minAreaSize, One)), One)
    \/ FGt(FAdd(clamp(area.top, 0, One), clamp(area.height, minAreaSize, One)), One)

Rejected(areas) == {k \in 1..Len(areas) : areas[k] # Nil /\ BeyondLastStrip(areas[k])}

\* C11: normalizeAreas fails with the area-out-of-page-bounds error exactly
\* when some non-nil entry, clamped and shrunk, has width or height below 0.01,
\* which is when its clamped left or top is above 0.99; the error names the
\* 1-based position of the first such entry, nil entries counted.  An entry
\* that is only oversized is shrunk, never rejected.
C11_ClampThenValidate ==
    (Called /\ Len(arg) > 0) =>
        /\ \A k \in 1..Len(arg) :
            arg[k] # Nil => (tooSmall(clampedArea(arg[k])) <=> BeyondLastStrip(arg[k]))
        /\ IF Rejected(arg) = {}
           THEN ret[1].err \in {NoError, ErrNoValidAreas}
           ELSE ret[1].err = ErrAreaOutOfBounds(Least(Rejected(arg)))
        /\ ret[1].err = NoError =>
            \A k \in 1..Len(NonNil(arg)) :
                \E i \in 1..Len(ret[1].areas) :
                    ret[1].areas[i] = clampedArea(NonNil(arg)[k])

\* a nil entry, an oversized entry that is kept, then the rejected entry
C11_Witness ==
    /\ Called
    /\ Len(arg) = 3
    /\ arg[1] = Nil
    /\ arg[2] # Nil /\ Oversized(arg[2]) /\ ~BeyondLastStrip(arg[2])
    /\ ret[1].err = ErrAreaOutOfBounds(3)

(***************************************************************************)
(* Claims about resolvePagesToProcess (checked under SpecPages).            *)
(***************************************************************************)
StrictlyAscending(s) == \A i \in 1..(Len(s) - 1) : s[i] < s[i + 1]

\* C8: with totalPages >= 1, an empty include list yields 1..totalPages in
\* ascending order; a non-empty list of in-range entries yields a strictly
\* ascending sequence whose elements are exactly the input entries.
C8_PageSelection ==
    (Len(ret) = 1 /\ arg.totalPages >= 1) =>
        /\ Len(arg.includePages) = 0 =>
            /\ ret[1].err = NoError
            /\ ret[1].pages = [i \in 1..arg.totalPages |-> i]
        /\ (/\ Len(arg.includePages) > 0
            /\ Elements(arg.includePages) \subseteq 1..arg.totalPages) =>
            /\ ret[1].err = NoError
            /\ StrictlyAscending(ret[1].pages)
            /\ Elements(ret[1].pages) = Elements(arg.includePages)

\* an unsorted include list with a repeated entry was resolved
C8_Witness ==
    /\ Len(ret) = 1
    /\ ret[1].err = NoError
    /\ Len(arg.includePages) = 3
    /\ arg.includePages[1] > arg.includePages[2]
    /\ arg.includePages[3] = arg.includePages[1]
    /\ Len(ret[1].pages) = 2

(***************************************************************************)
(* Unit specification of rectFromArea and extractTrimmedSegment: a page    *)
(* with any of a few boxes and inherited rotations, and any area that      *)
(* satisfies the invariant of a normalized area; the rectangle is resolved  *)
(* and then the segment is extracted with it.                               *)
(***************************************************************************)
\* a box away from the origin, and boxes of no width and of no height
PageBoxes ==
    {LetterBox, Rectangle(One, 2 * One, 3 * One, 5 * One),
     Rectangle(One, 0, One, 4 * One), Rectangle(0, One, 3 * One, One)}

Rotations == {0, 90, 180, 270}

NormalizedAreas ==
    {a \in {CropArea(t, l, w, h) :
                t \in {0, One \div 10, One \div 2, One - minAreaSize},
                l \in {0, One \div 10, One \div 2, One - minAreaSize},
                w \in {minAreaSize, (3 * One) \div 10, One},
                h \in {minAreaSize, One \div 5, One}} : WithinPage(a)}

InitRect ==
    /\ arg \in [pdf : {[Pdf(MaxPages) EXCEPT !.box = b, !.rotate = r] :
                          b \in PageBoxes, r \in Rotations},
                pageIndex : {1, MaxPages},
                area : NormalizedAreas]
    /\ ret = <<>>
    /\ PipelineIdle

CallRectFromArea ==
    /\ Len(ret) = 0
    /\ ret' = <<rectFromArea(arg.pdf.box, arg.area)>>
    /\ UNCHANGED <<arg, pipeVars>>

CallExtractTrimmedSegment ==
    /\ Len(ret) = 1
    /\ ret[1].err = NoError
    /\ \E libOk \in BOOLEAN :
        ret' = Append(ret, extractTrimmedSegment(arg.pdf, arg.pageIndex,
                                                 ret[1].rect, libOk))
    /\ UNCHANGED <<arg, pipeVars>>

NextRect == CallRectFromArea \/ CallExtractTrimmedSegment

SpecRect == InitRect /\ [][NextRect]_vars

(***************************************************************************)
(* Claims about rectFromArea and extractTrimmedSegment (checked under       *)
(* SpecRect).                                                               *)
(***************************************************************************)
\* the rectangle of the area in page space, cut at the edges of the box
ClampedRect(box, area) ==
    LET W == RectWidth(box)
        H == RectHeight(box)
        llx == FAdd(box.llx, FMul(area.left, W))
        lly == FSub(box.ury, FMul(FAdd(area.top, area.height), H))
    IN  Rectangle(FMax(llx, box.llx), FMax(lly, box.lly),
                  FMin(FAdd(llx, FMul(area.width, W)), box.urx),
                  FMin(FAdd(lly, FMul(area.height, H)), box.ury))

Collapsed(r) == FLe(r.urx, r.llx) \/ FLe(r.ury, r.lly)

\* C12: for every page box and every normalized area, a rectangle returned by
\* rectFromArea has strictly positive width and height and lies inside the
\* box, its lower edge at box.ury - (top + height) * H; when the rectangle cut
\* at the edges of the box has urx <= llx or ury <= lly, rectFromArea returns
\* the crop-region-outside-page-bounds error and no rectangle.
C12_RectInsidePageBox ==
    Len(ret) >= 1 =>
        LET box == arg.pdf.box
            r == ret[1]
        IN  /\ r.err = NoError =>
                /\ box.llx <= r.rect.llx /\ r.rect.llx < r.rect.urx
                /\ r.rect.urx <= box.urx
                /\ box.lly <= r.rect.lly /\ r.rect.lly < r.rect.ury
                /\ r.rect.ury <= box.ury
                /\ r.rect.lly =
                    box.ury - FMul(arg.area.top + arg.area.height, RectHeight(box))
                /\ r.rect = ClampedRect(box, arg.area)
            /\ Collapsed(ClampedRect(box, arg.area)) <=> r.err = ErrRectOutside
            /\ r.err # NoError => r.err = ErrRectOutside /\ r.rect = Nil

\* the area of the round-trip example on the box away from the origin
C12_Witness ==
    /\ Len(ret) = 1
    /\ ret[1].err = NoError
    /\ arg.pdf.box = Rectangle(One, 2 * One, 3 * One, 5 * One)
    /\ arg.area = CropArea(One \div 10, One \div 10, (3 * One) \div 10, One \div 5)
    /\ ret[1].rect.lly > arg.pdf.box.lly
    /\ ret[1].rect.llx > arg.pdf.box.llx

Extracted == Len(ret) = 2 /\ ret[2].err = NoError

\* C13: the segment extracted for a normalized area on a page box of width W
\* and height H has MediaBox and CropBox both equal to the rectangle from
\* (0, 0) to (area.width * W, area.height * H).
C13_SegmentBoxDimensions ==
    Extracted =>
        LET w == FMul(arg.area.width, RectWidth(arg.pdf.box))
            h == FMul(arg.area.height, RectHeight(arg.pdf.box))
        IN  /\ ret[2].segment.mediaBox = Rectangle(0, 0, w, h)
            /\ ret[2].segment.cropBox = Rectangle(0, 0, w, h)

\* width 0.3 and height 0.2 of a page of 3 by 4 units, cut away from its corner
C13_Witness ==
    /\ Extracted
    /\ arg.pdf.box = LetterBox
    /\ arg.area = CropArea(One \div 10, One \div 10, (3 * One) \div 10, One \div 5)
    /\ ret[1].rect.llx > 0
    /\ ret[2].segment.mediaBox =
        Rectangle(0, 0, (9 * One) \div 10, (4 * One) \div 5)

\* C20: the content stream of a segment is: save graphics state; the
\* compensation of the rotation, present if and only if the inherited rotation
\* of the page is not zero; the translation by (-rect.llx, -rect.lly); the
\* content of the original page; restore graphics state.  The page dictionary
\* of the segment has no Rotate entry.
C20_ContentStreamOrder ==
    Extracted =>
        LET c == ret[2].segment.contents
            n == Len(c)
            rotated == arg.pdf.rotate # 0
        IN  /\ n = IF rotated THEN 5 ELSE 4
            /\ c[1] = Operator("q", 0, 0)
            /\ rotated => c[2] = Operator("rotate", arg.pdf.rotate, 0)
            /\ c[n - 2] = Operator("cm", 0 - ret[1].rect.llx, 0 - ret[1].rect.lly)
            /\ c[n - 1] = Operator("page content", arg.pageIndex, 0)
            /\ c[n] = Operator("Q", 0, 0)
            /\ Cardinality({i \in 1..n : c[i].op = "rotate"}) = IF rotated THEN 1 ELSE 0
            /\ ret[2].segment.rotate = Nil

\* a page rotated by a quarter turn, cut away from the corner of its box
C20_Witness ==
    /\ Extracted
    /\ arg.pdf.rotate = 90
    /\ ret[1].rect.llx > 0
    /\ ret[1].rect.lly > 0
    /\ Len(ret[2].segment.contents) = 5

(***************************************************************************)
(* Unit specification of the filenames: titles of white space, dots, an     *)
(* invalid character and a letter, and titles that contain ".pdf".          *)
(***************************************************************************)
Titles ==
    SeqsUpTo({" ", "TAB", ".", "/", "p"}, MaxTitle)
    \cup {before \o PdfExtension \o after :
            before \in SeqsUpTo({" ", ".", "p"}, MaxTitle - 3),
            after \in SeqsUpTo({" ", ".", "p"}, MaxTitle - 3)}

InitFilename ==
    /\ arg \in [title : Titles, orientation : {"", "landscape"}]
    /\ ret = <<>>
    /\ PipelineIdle

CallDeriveFilename ==
    /\ Len(ret) = 0
    /\ ret' = <<deriveFilename(arg.title)>>
    /\ UNCHANGED <<arg, pipeVars>>

SendComplete ==
    /\ Len(ret) = 1
    /\ ret' = Append(ret, completeFilename(arg.title, arg.orientation))
    /\ UNCHANGED <<arg, pipeVars>>

NextFilename == CallDeriveFilename \/ SendComplete

SpecFilename == InitFilename /\ [][NextFilename]_vars

(***************************************************************************)
(* Claims about the filenames (checked under SpecFilename).                 *)
(***************************************************************************)
EndsWith(s, suffix) ==
    Len(s) >= Len(suffix) /\ SubSeq(s, Len(s) - Len(suffix) + 1, Len(s)) = suffix

\* the title holds nothing but white space
Blank(title) == \A i \in 1..Len(title) : title[i] \in WhiteSpace

\* between its leading and trailing white space the title holds nothing but
\* dots and spaces
SanitizesToNothing(title) ==
    \E i, j \in 0..Len(title) :
        /\ i <= j
        /\ \A k \in 1..Len(title) :
            IF k <= i \/ k > j THEN title[k] \in WhiteSpace
                                ELSE title[k] \in {".", " "}

\* C22: for every title deriveFilename returns a name that ends with
\* "-trimmed.pdf", whose base is not empty, holds none of the characters
\* < > : " / \ | ? * and no control character, and does not end with a dot or
\* a space; the base is "trimmed-score" when the title is empty, blank or
\* sanitizes to nothing.
C22_FilenameSanitized ==
    Len(ret) >= 1 =>
        LET name == ret[1]
            base == SubSeq(name, 1, Len(name) - Len(TrimmedSuffix))
        IN  /\ EndsWith(name, TrimmedSuffix)
            /\ Len(base) > 0
            /\ \A i \in 1..Len(base) : base[i] \notin InvalidFilenameChars
            /\ base[Len(base)] \notin {".", " "}
            /\ (Blank(arg.title) \/ SanitizesToNothing(arg.title)) =>
                base = DefaultBase

\* a title with an invalid character inside and a dot and a space at its end
C22_Witness ==
    /\ Len(ret) >= 1
    /\ arg.title = <<"p", "/", "p", ".", " ">>
    /\ ret[1] = <<"p", "_", "p">> \o TrimmedSuffix

\* C28: with the orientation "landscape" the filename of the complete
\* notification is deriveFilename(title) with "-landscape" inserted before
\* its final ".pdf": it ends with "-trimmed-landscape.pdf", for every title,
\* titles that contain ".pdf" included.
C28_LandscapeBeforeFinalExtension ==
    (Len(ret) = 2 /\ arg.orientation = "landscape") =>
        LET name == ret[1]
            stem == SubSeq(name, 1, Len(name) - Len(PdfExtension))
        IN  /\ ret[2] = stem \o LandscapeSuffix \o PdfExtension
            /\ EndsWith(ret[2], 
                        <<"-", "t", "r", "i", "m", "m", "e", "d", "-", "l", "a", "n", "d", "s", "c", "a", "p", "e", ".", "p", "d", "f">>)

(***************************************************************************)
(* The editor (frontend/src/TrimEditor.tsx): clampArea, and the area it     *)
(* returns handed to normalizeAreas.  Math.min and Math.max return NaN if   *)
(* an operand is NaN, as clamp does.                                        *)
(***************************************************************************)
MIN_AREA_SIZE == 2

clampArea(area) ==
    LET left == clamp(area.left, 0, One - MIN_AREA_SIZE)
        top == clamp(area.top, 0, One - MIN_AREA_SIZE)
        width == clamp(area.width, MIN_AREA_SIZE, One)
        height == clamp(area.height, MIN_AREA_SIZE, One)
        width2 == IF FGt(FAdd(left, width), One)
                  THEN FMax(MIN_AREA_SIZE, FSub(One, left))
                  ELSE width
        height2 == IF FGt(FAdd(top, height), One)
                   THEN FMax(MIN_AREA_SIZE, FSub(One, top))
                   ELSE height
    IN  [top |-> top, left |-> left, width |-> width2, height |-> height2]

\* rectangles the pointer handlers hand to clampArea: positions and sizes
\* inside and outside the page, and NaN (the quotient 0 / 0 of a position in
\* a container of no width)
EditorRectangles ==
    {CropArea(t, l, w, h) :
        t \in {-20, 0, One \div 2, One - MIN_AREA_SIZE, One - 1, One + 60, NaN},
        l \in {-20, 0, One \div 2, One - MIN_AREA_SIZE, One - 1, One + 60, NaN},
        w \in {-20, 1, MIN_AREA_SIZE, One \div 2, One + 100, NaN},
        h \in {-20, 1, MIN_AREA_SIZE, One \div 2, One + 100, NaN}}

InitEditor ==
    /\ arg \in EditorRectangles
    /\ ret = <<>>
    /\ PipelineIdle

CallClampArea ==
    /\ Len(ret) = 0
    /\ ret' = <<clampArea(arg)>>
    /\ UNCHANGED <<arg, pipeVars>>

\* the area is sent as the only default area of a request
SubmitArea ==
    /\ Len(ret) = 1
    /\ ret' = Append(ret, normalizeAreas(<<ret[1]>>))
    /\ UNCHANGED <<arg, pipeVars>>

NextEditor == CallClampArea \/ SubmitArea

SpecEditor == InitEditor /\ [][NextEditor]_vars

(***************************************************************************)
(* Claims about the editor (checked under SpecEditor).                      *)
(***************************************************************************)
\* C29: for any input rectangle the result of clampArea satisfies 0 <= left,
\* 0 <= top, width >= 0.01, height >= 0.01, left + width <= 1 and
\* top + height <= 1, and normalizeAreas accepts it without error and returns
\* the same four values.
C29_EditorAreasAccepted ==
    /\ Len(ret) >= 1 => WithinPage(ret[1])
    /\ Len(ret) = 2 =>
        /\ ret[2].err = NoError
        /\ ret[2].areas = <<ret[1]>>

(***************************************************************************)
(* The client (frontend/src/api/scoreClient.ts): trimScoreWithProgress      *)
(* reading the streamed response.  The response is the lines that ended     *)
(* with a newline and the text after the last newline; a line is blank,     *)
(* text JSON.parse rejects, or an object.  A field the object does not have *)
(* is Undefined, a progress it does not have is NoProgress.                 *)
(***************************************************************************)
MaxLines == 3

Undefined == "undefined"

NoProgress == -1

Json(stage, progress, message, trimmedPdf, filename, code) ==
    [kind |-> "json", stage |-> stage, progress |-> progress,
     message |-> message, trimmedPdf |-> trimmedPdf, filename |-> filename,
     code |-> code]

BlankLine ==
    [Json(Undefined, NoProgress, Undefined, Undefined, Undefined, Undefined)
        EXCEPT !.kind = "blank"]

UnparsableLine ==
    [Json(Undefined, NoProgress, Undefined, Undefined, Undefined, Undefined)
        EXCEPT !.kind = "unparsable"]

ServerErrorLine ==
    Json(Undefined, NoProgress, "areas are required", Undefined, Undefined,
         "invalid_argument")

CompleteLine ==
    Json("complete", 100, MessageGenerated, "JVBERi0=", "a-trimmed.pdf",
         Undefined)

ClientLines ==
    { BlankLine, UnparsableLine, ServerErrorLine,
      Json("parsing", 10, "parsing pdf", Undefined, Undefined, Undefined),
      Json("processing", 50, "", Undefined, Undefined, Undefined),
      Json("parsing", NoProgress, "parsing pdf", Undefined, Undefined, Undefined),
      CompleteLine,
      Json("complete", 100, Undefined, "JVBERi0=", Undefined, Undefined),
      Json("complete", 100, MessageGenerated, Undefined, "a-trimmed.pdf",
           Undefined) }

\* a string JavaScript takes as true in a condition
Truthy(v) == v \notin {Undefined, ""}

OrElse(v, default) == IF Truthy(v) THEN v ELSE default

MessageNotCompleted == "streaming did not complete"

MessageReadFailed == "read failed"

\* the Error thrown while a line is handled, caught by the catch of the line
ThrownInLine(line) ==
    IF line.kind = "unparsable" THEN "SyntaxError"
    ELSE IF line.kind = "json" /\ ~(Truthy(line.stage) /\ line.progress # NoProgress)
            /\ Truthy(line.code) /\ Truthy(line.message)
         THEN line.message
         ELSE Undefined

NoResult ==
    [message |-> Undefined, filename |-> Undefined, pdfData |-> Undefined]

onProgressOf(line) ==
    IF line.kind = "json" /\ Truthy(line.stage) /\ line.progress # NoProgress
    THEN <<[stage |-> line.stage, progress |-> line.progress,
            message |-> OrElse(line.message, "")]>>
    ELSE <<>>

finalResultOf(line, finalResult) ==
    IF line.kind = "json" /\ Truthy(line.stage) /\ line.progress # NoProgress
        /\ line.stage = "complete" /\ Truthy(line.trimmedPdf)
    THEN [message |-> OrElse(line.message, "trimming completed"),
          filename |-> OrElse(line.filename, "trimmed-score.pdf"),
          pdfData |-> line.trimmedPdf]
    ELSE finalResult

Streams ==
    {[lines |-> l, rest |-> r] :
        l \in UNION {[1..n -> ClientLines] : n \in 0..MaxLines},
        r \in {BlankLine, ServerErrorLine,
               CompleteLine}}

InitClient ==
    /\ arg \in Streams
    /\ ret = <<>>
    /\ pc = "reading"
    /\ loc = [next |-> 1, finalResult |-> NoResult, warned |-> <<>>]
    /\ resp = [status |-> "pending", message |-> Undefined, result |-> NoResult]
    /\ req = idle.req
    /\ sent = idle.sent

\* one line of the for loop: blank lines are skipped, whatever is thrown in
\* the try block is logged and the loop goes on
ReadLine ==
    /\ pc = "reading"
    /\ loc.next <= Len(arg.lines)
    /\ LET line == arg.lines[loc.next]
       IN  IF line.kind = "blank"
           THEN /\ loc' = [loc EXCEPT !.next = @ + 1]
                /\ ret' = ret
           ELSE /\ ret' = ret \o onProgressOf(line)
                /\ loc' = [next |-> loc.next + 1,
                           finalResult |-> finalResultOf(line, loc.finalResult),
                           warned |-> IF ThrownInLine(line) = Undefined
                                      THEN loc.warned
                                      ELSE Append(loc.warned, ThrownInLine(line))]
    /\ UNCHANGED <<arg, pc, req, sent, resp>>

\* reader.read() rejects: the function throws what the reader threw
ReadFails ==
    /\ pc = "reading"
    /\ pc' = "settled"
    /\ resp' = [status |-> "rejected", message |-> MessageReadFailed,
                result |-> NoResult]
    /\ UNCHANGED <<arg, ret, req, loc, sent>>

\* reader.read() reports done: the text after the last newline stays in the
\* buffer, the promise is settled from finalResult
Settle ==
    /\ pc = "reading"
    /\ loc.next > Len(arg.lines)
    /\ pc' = "settled"
    /\ resp' = IF loc.finalResult = NoResult
               THEN [status |-> "rejected", message |-> MessageNotCompleted,
                     result |-> NoResult]
               ELSE [status |-> "resolved", message |-> Undefined,
                     result |-> loc.finalResult]
    /\ UNCHANGED <<arg, ret, req, loc, sent>>

NextClient == ReadLine \/ ReadFails \/ Settle

SpecClient == InitClient /\ [][NextClient]_vars

(***************************************************************************)
(* Claims about the client (checked under SpecClient).                      *)
(***************************************************************************)
IsErrorMessage(line) ==
    line.kind = "json" /\ Truthy(line.code) /\ Truthy(line.message)

IsNotification(line) ==
    line.kind = "json" /\ Truthy(line.stage) /\ line.progress # NoProgress

NotificationsRead ==
    SelectSeq(SubSeq(arg.lines, 1, loc.next - 1), IsNotification)

\* C30: when the response read to its end holds an error message and no
\* complete notification, the promise rejects with the server's message;
\* onProgress is called once per progress notification, in arrival order; and
\* the promise resolves only if a complete notification with PDF data was
\* received.
C30_ClientReportsServerError ==
    /\ (/\ pc = "settled"
        /\ resp.message # MessageReadFailed
        /\ \E i \in 1..Len(arg.lines) : IsErrorMessage(arg.lines[i])
        /\ \A i \in 1..Len(arg.lines) :
               ~(IsNotification(arg.lines[i]) /\ arg.lines[i].stage = "complete"))
       => /\ resp.status = "rejected"
          /\ \E i \in 1..Len(arg.lines) :
                 /\ IsErrorMessage(arg.lines[i])
                 /\ resp.message = arg.lines[i].message
    /\ ret = [i \in 1..Len(NotificationsRead) |->
                 [stage |-> NotificationsRead[i].stage,
                  progress |-> NotificationsRead[i].progress,
                  message |-> OrElse(NotificationsRead[i].message, "")]]
    /\ (pc = "settled" /\ resp.status = "resolved")
       => \E i \in 1..Len(arg.lines) :
              /\ IsNotification(arg.lines[i])
              /\ arg.lines[i].stage = "complete"
              /\ Truthy(arg.lines[i].trimmedPdf)

====
